---------------------------- MODULE Spec2Model ----------------------------
(***************************************************************************)
(* Model of download_geohot_blogs.py: link discovery on the blog index,    *)
(* filename derivation, the per-post converter and the run orchestrator.   *)
(* Python str values are TLA+ strings (sequences of characters); every     *)
(* string function is computed character by character as the code and the  *)
(* standard library functions it calls compute it.                         *)
(***************************************************************************)
EXTENDS Naturals, Sequences, FiniteSets, TLC

(***************************************************************************)
(* Python str primitives                                                   *)
(***************************************************************************)

\* The ASCII characters U+0020..U+005F and U+0061..U+007E in code point
\* order (a TLA+ string cannot hold U+0060, which no string of the model
\* uses).
AsciiLow ==
  " !\"#$%&'()*+,-./0123456789:;<=>?@ABCDEFGHIJKLMNOPQRSTUVWXYZ[\\]^_"

AsciiHigh == "abcdefghijklmnopqrstuvwxyz{|}~"

\* s[i-1] of Python, as a one-character string (positions count from 1).
Char(s, i) == SubSeq(s, i, i)

\* ord(c): the tab is U+0009, the others are found in the two tables.
CodePoint(c) ==
  IF c = "\t" THEN 9
  ELSE IF \E k \in 1..Len(AsciiLow) : Char(AsciiLow, k) = c
    THEN 31 + (CHOOSE k \in 1..Len(AsciiLow) : Char(AsciiLow, k) = c)
  ELSE 96 + (CHOOSE k \in 1..Len(AsciiHigh) : Char(AsciiHigh, k) = c)

\* s < t of Python: the first differing code point decides, a proper prefix
\* is smaller.
StrLess(s, t) ==
  LET m == IF Len(s) < Len(t) THEN Len(s) ELSE Len(t)
      D == {k \in 1..m : Char(s, k) # Char(t, k)}
  IN  IF D = {} THEN Len(s) < Len(t)
      ELSE LET d == CHOOSE k \in D : \A j \in D : k <= j
           IN  CodePoint(Char(s, d)) < CodePoint(Char(t, d))

\* s.startswith(p)
StartsWith(s, p) == Len(p) <= Len(s) /\ SubSeq(s, 1, Len(p)) = p

\* s.endswith(p)
EndsWith(s, p) ==
  Len(p) <= Len(s) /\ SubSeq(s, Len(s) - Len(p) + 1, Len(s)) = p

\* s.find(c) + 1 for a one-character c: the first position of c, 0 if none.
Find(s, c) ==
  LET P == {k \in 1..Len(s) : Char(s, k) = c}
  IN  IF P = {} THEN 0 ELSE CHOOSE k \in P : \A j \in P : k <= j

\* The first position of any character of the set cs, Len(s) + 1 if none.
FindAny(s, cs) ==
  LET P == {k \in 1..Len(s) : Char(s, k) \in cs}
  IN  IF P = {} THEN Len(s) + 1 ELSE CHOOSE k \in P : \A j \in P : k <= j

\* s.split(c): the pieces between the occurrences of c.
RECURSIVE Split(_, _)
Split(s, c) ==
  LET k == Find(s, c)
  IN  IF k = 0 THEN <<s>>
      ELSE <<SubSeq(s, 1, k - 1)>> \o Split(SubSeq(s, k + 1, Len(s)), c)

\* c.join(parts)
RECURSIVE Join(_, _)
Join(parts, c) ==
  IF parts = <<>> THEN ""
  ELSE IF Len(parts) = 1 THEN parts[1]
  ELSE parts[1] \o c \o Join(Tail(parts), c)

\* s.replace(a, b) for one-character a: every character that is a becomes
\* b (the string is cut in halves, which keeps the evaluation shallow).
RECURSIVE Replace(_, _, _)
Replace(s, a, b) ==
  IF s = "" THEN ""
  ELSE IF Len(s) = 1 THEN (IF s = a THEN b ELSE s)
  ELSE Replace(SubSeq(s, 1, Len(s) \div 2), a, b)
         \o Replace(SubSeq(s, Len(s) \div 2 + 1, Len(s)), a, b)

\* The characters str.strip() and str.isspace() treat as whitespace, among
\* those of the model's alphabet.
Whitespace == {" ", "\t"}

\* s.strip()
RECURSIVE Strip(_)
Strip(s) ==
  IF s = "" THEN ""
  ELSE IF Char(s, 1) \in Whitespace THEN Strip(SubSeq(s, 2, Len(s)))
  ELSE IF Char(s, Len(s)) \in Whitespace THEN Strip(SubSeq(s, 1, Len(s) - 1))
  ELSE s

\* s.strip('_')
RECURSIVE StripUnderscores(_)
StripUnderscores(s) ==
  IF s = "" THEN ""
  ELSE IF Char(s, 1) = "_" THEN StripUnderscores(SubSeq(s, 2, Len(s)))
  ELSE IF Char(s, Len(s)) = "_"
    THEN StripUnderscores(SubSeq(s, 1, Len(s) - 1))
  ELSE s

\* s.isspace(): non-empty and all whitespace.
IsSpace(s) == s # "" /\ \A k \in 1..Len(s) : Char(s, k) \in Whitespace

Digits == {"0", "1", "2", "3", "4", "5", "6", "7", "8", "9"}

Letters ==
  {Char(AsciiLow, k) : k \in 34..59} \cup {Char(AsciiHigh, k) : k \in 1..26}

\* s.lower() on the ASCII letters.
RECURSIVE Lower(_)
Lower(s) ==
  IF s = "" THEN ""
  ELSE LET c == Char(s, 1)
           U == {k \in 34..59 : Char(AsciiLow, k) = c}
       IN  (IF U = {} THEN c
            ELSE Char(AsciiHigh, (CHOOSE k \in U : TRUE) - 33))
             \o Lower(SubSeq(s, 2, Len(s)))

(***************************************************************************)
(* urllib.parse, as called by get_blog_posts (urljoin) and by              *)
(* download_and_convert_to_pdf (urlparse(url).path).  No URL of the model  *)
(* holds ';', so the params component is always empty and is left out.     *)
(***************************************************************************)

\* urllib.parse.scheme_chars
scheme_chars == Letters \cup Digits \cup {"+", "-", "."}

\* urllib.parse.uses_relative and uses_netloc, restricted to the schemes
\* the model's URLs can carry.
uses_relative == {"", "http", "https", "ftp", "file"}

uses_netloc == {"", "http", "https", "ftp", "file"}

\* urlsplit, last step: the query is what follows the first '?' of what is
\* left, and the path what precedes it.
SplitQuery(scheme, netloc, url, fragment, q) ==
  [scheme |-> scheme, netloc |-> netloc,
   path |-> IF q > 0 THEN SubSeq(url, 1, q - 1) ELSE url,
   query |-> IF q > 0 THEN SubSeq(url, q + 1, Len(url)) ELSE "",
   fragment |-> fragment]

\* urlsplit, third step: the fragment is what follows the first '#'.
SplitFragment(scheme, netloc, url, h) ==
  IF h > 0
  THEN SplitQuery(scheme, netloc, SubSeq(url, 1, h - 1),
                  SubSeq(url, h + 1, Len(url)),
                  Find(SubSeq(url, 1, h - 1), "?"))
  ELSE SplitQuery(scheme, netloc, url, "", Find(url, "?"))

\* _splitnetloc(url, 2): the netloc runs from after the '//' to the first
\* of '/', '?', '#'.
SplitNetlocAt(scheme, rest, delim) ==
  SplitFragment(scheme, SubSeq(rest, 1, delim - 1),
                SubSeq(rest, delim, Len(rest)),
                Find(SubSeq(rest, delim, Len(rest)), "#"))

\* urlsplit, second step: a netloc is there when '//' follows the scheme.
SplitNetloc(scheme, url) ==
  IF StartsWith(url, "//")
  THEN SplitNetlocAt(scheme, SubSeq(url, 3, Len(url)),
                     FindAny(SubSeq(url, 3, Len(url)), {"/", "?", "#"}))
  ELSE SplitFragment(scheme, "", url, Find(url, "#"))

\* urlsplit, first step: a scheme is there when the text before the first
\* ':' starts with a letter and holds scheme characters only.
SplitScheme(url, default_scheme, c) ==
  IF /\ c > 1
     /\ Char(url, 1) \in Letters
     /\ \A k \in 1..(c - 1) : Char(url, k) \in scheme_chars
  THEN SplitNetloc(Lower(SubSeq(url, 1, c - 1)), SubSeq(url, c + 1, Len(url)))
  ELSE SplitNetloc(default_scheme, url)

\* urlsplit(url, scheme): scheme, netloc, path, query and fragment of url.
urlsplit(url, default_scheme) == SplitScheme(url, default_scheme, Find(url, ":"))

\* urlunsplit, after the netloc: the scheme, the query and the fragment are
\* added when they are not empty.
UnsplitRest(scheme, url, query, fragment) ==
  (IF scheme # "" THEN scheme \o ":" ELSE "") \o url
    \o (IF query # "" THEN "?" \o query ELSE "")
    \o (IF fragment # "" THEN "#" \o fragment ELSE "")

\* urlunsplit((scheme, netloc, path, query, fragment))
urlunsplit(scheme, netloc, path, query, fragment) ==
  IF netloc # ""
       \/ (scheme # "" /\ scheme \in uses_netloc /\ ~StartsWith(path, "//"))
  THEN UnsplitRest(scheme,
         "//" \o netloc \o (IF path # "" /\ ~StartsWith(path, "/")
                            THEN "/" \o path ELSE path),
         query, fragment)
  ELSE UnsplitRest(scheme, path, query, fragment)

\* segments[1:-1] = filter(None, segments[1:-1]): the empty pieces between
\* the first and the last are dropped.
FilterMiddle(segments) ==
  IF Len(segments) <= 2 THEN segments
  ELSE <<segments[1]>>
         \o SelectSeq(SubSeq(segments, 2, Len(segments) - 1),
                      LAMBDA x : x # "")
         \o <<segments[Len(segments)]>>

\* The loop of urljoin over the segments: '..' pops (nothing when there is
\* nothing to pop), '.' is skipped, anything else is appended.
RECURSIVE ResolveSegments(_, _)
ResolveSegments(segments, resolved_path) ==
  IF segments = <<>> THEN resolved_path
  ELSE LET seg == Head(segments)
       IN  ResolveSegments(Tail(segments),
             IF seg = ".."
               THEN (IF resolved_path = <<>> THEN <<>>
                     ELSE SubSeq(resolved_path, 1, Len(resolved_path) - 1))
             ELSE IF seg = "." THEN resolved_path
             ELSE Append(resolved_path, seg))

\* The end of urljoin: the resolved segments, with a trailing empty one
\* when the last segment was '.' or '..', joined into the path.
JoinResolved(b, u, segments, resolved) ==
  urlunsplit(u.scheme, b.netloc,
             IF Join(IF segments[Len(segments)] \in {".", ".."}
                     THEN Append(resolved, "") ELSE resolved, "/") = ""
             THEN "/"
             ELSE Join(IF segments[Len(segments)] \in {".", ".."}
                       THEN Append(resolved, "") ELSE resolved, "/"),
             u.query, u.fragment)

JoinSegments(b, u, segments) ==
  JoinResolved(b, u, segments, ResolveSegments(segments, <<>>))

\* The segments urljoin resolves: those of an absolute path alone, else
\* those of the base (without its last piece, unless that is empty)
\* followed by those of the path.
JoinPaths(b, u, bp) ==
  JoinSegments(b, u,
    IF StartsWith(u.path, "/") THEN Split(u.path, "/")
    ELSE FilterMiddle((IF bp[Len(bp)] # "" THEN SubSeq(bp, 1, Len(bp) - 1)
                       ELSE bp) \o Split(u.path, "/")))

\* urljoin once base and url are split.
JoinSplit(url, b, u) ==
  IF u.scheme # b.scheme \/ u.scheme \notin uses_relative THEN url
  ELSE IF u.scheme \in uses_netloc /\ u.netloc # ""
    THEN urlunsplit(u.scheme, u.netloc, u.path, u.query, u.fragment)
  ELSE IF u.path = ""
    THEN urlunsplit(u.scheme, b.netloc, b.path,
                    IF u.query = "" THEN b.query ELSE u.query, u.fragment)
  ELSE JoinPaths(b, u, Split(b.path, "/"))

JoinBase(url, b) == JoinSplit(url, b, urlsplit(url, b.scheme))

\* urljoin(base, url)
urljoin(base, url) ==
  IF base = "" THEN url
  ELSE IF url = "" THEN base
  ELSE JoinBase(url, urlsplit(base, ""))

(***************************************************************************)
(* Link discovery                                                          *)
(***************************************************************************)

\* base_url of main()
base_url == "https://geohot.github.io/blog/"

\* The test without the prefix check: any resolved URL ending in .html is
\* kept.
IsPostUrlAnywhere(base, full_url) ==
  /\ full_url # base
  /\ EndsWith(full_url, ".html")

\* The test on the resolved URL.
IsPostUrl(base, full_url) ==
  /\ StartsWith(full_url, base)
  /\ full_url # base
  /\ EndsWith(full_url, ".html")

\* The test of the loop body of get_blog_posts on one href: is the resolved
\* URL appended to blog_links?
KeepsLink(base, href) ==
  /\ ~(href = "" \/ StartsWith(href, "#") \/ StartsWith(href, "http")
         \/ href = "/")
  /\ IsPostUrl(base, urljoin(base, href))

\* The for loop of get_blog_posts: blog_links after the hrefs of the index
\* page, in document order.
RECURSIVE CollectLinks(_, _, _)
CollectLinks(base, hrefs, blog_links) ==
  IF hrefs = <<>> THEN blog_links
  ELSE CollectLinks(base, Tail(hrefs),
         IF KeepsLink(base, Head(hrefs))
         THEN Append(blog_links, urljoin(base, Head(hrefs)))
         ELSE blog_links)

\* set(blog_links)
ToSet(seq) == {seq[k] : k \in 1..Len(seq)}

\* sorted(list(S)) for a set of strings: the least string first.
RECURSIVE Sorted(_)
Sorted(S) ==
  IF S = {} THEN <<>>
  ELSE LET m == CHOOSE x \in S : \A y \in S : y = x \/ StrLess(x, y)
       IN  <<m>> \o Sorted(S \ {m})

\* get_blog_posts(base_url) on an index page with the given anchor hrefs,
\* when the fetch of the index succeeds.
get_blog_posts(base, hrefs) == Sorted(ToSet(CollectLinks(base, hrefs, <<>>)))

(***************************************************************************)
(* Title and filename derivation.  A parsed page (soup) is the sequence of *)
(* its elements in document order, each [tag, text]: text is what          *)
(* get_text() returns for the element.                                     *)
(***************************************************************************)

\* soup.find(name): the position of the first element with that tag, 0 when
\* there is none (None).
SoupFind(soup, name) ==
  LET P == {k \in 1..Len(soup) : soup[k].tag = name}
  IN  IF P = {} THEN 0 ELSE CHOOSE k \in P : \A j \in P : k <= j

\* get_blog_title(soup): h1, then title, then h2, then h3, else "untitled".
\* A found element is truthy whatever its text.
get_blog_title(soup) ==
  IF SoupFind(soup, "h1") # 0 THEN Strip(soup[SoupFind(soup, "h1")].text)
  ELSE IF SoupFind(soup, "title") # 0
    THEN Strip(soup[SoupFind(soup, "title")].text)
  ELSE IF SoupFind(soup, "h2") # 0 THEN Strip(soup[SoupFind(soup, "h2")].text)
  ELSE IF SoupFind(soup, "h3") # 0 THEN Strip(soup[SoupFind(soup, "h3")].text)
  ELSE "untitled"

\* The character class of re.sub(r'[<>:"/\\|?*]', '', title).
InvalidChars == {"<", ">", ":", "\"", "/", "\\", "|", "?", "*"}

\* re.sub(r'[<>:"/\\|?*]', '', title): every character of the class is
\* dropped (the string is cut in halves, as in Replace).
RECURSIVE RemoveInvalid(_)
RemoveInvalid(s) ==
  IF s = "" THEN ""
  ELSE IF Len(s) = 1 THEN (IF s \in InvalidChars THEN "" ELSE s)
  ELSE RemoveInvalid(SubSeq(s, 1, Len(s) \div 2))
         \o RemoveInvalid(SubSeq(s, Len(s) \div 2 + 1, Len(s)))

\* The length sanitize_filename cuts the name to.
MaxFilenameLen == 200

\* s[:n]
Truncate(s, n) == IF Len(s) <= n THEN s ELSE SubSeq(s, 1, n)

\* sanitize_filename(title)
sanitize_filename(title) ==
  Truncate(Replace(RemoveInvalid(title), " ", "_"), MaxFilenameLen)

\* Does r'/(\d{4})/(\d{2})/(\d{2})/' match url at position k?
DateAt(url, k) ==
  /\ k + 11 <= Len(url)
  /\ \A j \in {k, k + 5, k + 8, k + 11} : Char(url, j) = "/"
  /\ \A j \in {k + 1, k + 2, k + 3, k + 4, k + 6, k + 7, k + 9, k + 10} :
       Char(url, j) \in Digits

\* f"{year}-{month}-{day}" for the match at position k.
DateString(url, k) ==
  SubSeq(url, k + 1, k + 4) \o "-" \o SubSeq(url, k + 6, k + 7)
    \o "-" \o SubSeq(url, k + 9, k + 10)

\* The positions where the pattern matches.
DateMatches(url) == {k \in 1..Len(url) : DateAt(url, k)}

\* extract_date_from_url(url): "YYYY-MM-DD" from the leftmost match of the
\* pattern; the empty string stands for None (the function returns no empty
\* date).
extract_date_from_url(url) ==
  IF DateMatches(url) = {} THEN ""
  ELSE DateString(url, CHOOSE m \in DateMatches(url) :
                         \A j \in DateMatches(url) : m <= j)

\* The fallback name: the URL path with '/' as '_' and the outer '_'
\* stripped, or "blog_post" when nothing is left.
PathName(from_path) == IF from_path = "" THEN "blog_post" ELSE from_path

\* The sanitized title, unless it is empty or whitespace.
NameOrPath(filename, url) ==
  IF filename = "" \/ IsSpace(filename)
  THEN PathName(StripUnderscores(Replace(urlsplit(url, "").path, "/", "_")))
  ELSE filename

\* The name download_and_convert_to_pdf gives a post before the date is
\* prepended: the sanitized title, or, when that is empty or whitespace,
\* the URL path with '/' as '_' and the outer '_' stripped, or "blog_post".
BaseName(soup, url) ==
  NameOrPath(sanitize_filename(get_blog_title(soup)), url)

\* f"{date}_{filename}" when the URL has a date.
WithDate(date, filename) ==
  IF date # "" THEN date \o "_" \o filename ELSE filename

\* filename of download_and_convert_to_pdf, the base of the PDF and of the
\* HTML backup: the date of the URL, when it has one, and the name.
Filename(soup, url) ==
  WithDate(extract_date_from_url(url), BaseName(soup, url))

(***************************************************************************)
(* The web site and the output directory                                   *)
(***************************************************************************)

\* A page holding one element.
Page(tag, text) == <<[tag |-> tag, text |-> text]>>

PostA == "https://geohot.github.io/blog/jekyll/update/2024/03/07/a.html"

PostB == "https://geohot.github.io/blog/jekyll/update/2024/03/07/b.html"

PostC == "https://geohot.github.io/blog/a b.html"

PostP1 == "https://geohot.github.io/blog/p1.html"

\* Three posts, listed out of order: two of the same day with the same
\* title (one in its h1, one in its title element), and one whose title
\* sanitizes to nothing.
SiteThree ==
  [index |-> <<"jekyll/update/2024/03/07/b.html",
               "/blog/jekyll/update/2024/03/07/a.html", "a b.html",
               "/blog/jekyll/update/2024/03/07/a.html">>,
   pages |-> (PostA :> Page("h1", " Same Title "))
               @@ (PostB :> Page("title", "Same Title"))
               @@ (PostC :> Page("h1", "??"))]

\* Anchors of every skipped kind around one post.
SiteOne ==
  [index |-> <<"#x", "https://ext/a.html", "/", "/blog/p1.html",
               "/blog/p1.html", "/blog/p2.txt">>,
   pages |-> (PostP1 :> Page("h1", "A/B: Test?"))]

\* Two posts with different names.
SiteTwo ==
  [index |-> <<"p1.html", "./jekyll/update/2024/03/07/a.html">>,
   pages |-> (PostP1 :> Page("h2", "First"))
               @@ (PostA :> Page("h3", "Second"))]

\* An index page without any post link.
SiteNone ==
  [index |-> <<"#top", "/", "https://github.com/geohot", "/about/">>,
   pages |-> [u \in {} |-> <<>>]]

Sites == {SiteThree, SiteOne, SiteTwo, SiteNone}

\* The number of times main() is run, one run after the other, on the same
\* site and the same output directory.
MaxRuns == 2

VARIABLES
  site,                  \* the index page's hrefs and the posts' pages
  files,                 \* output directory: file name -> URL it was made of
  run,                   \* the number of the current run of main()
  WEASYPRINT_AVAILABLE,  \* the module-level flag of this run's process
  pc,                    \* where main() is
  blog_urls,             \* main(): the discovered URLs
  i,                     \* main(): position of the loop in blog_urls
  new_count,
  existing_count,
  error_count,
  failed_urls,           \* main(): the (url, message) failure records
  response,              \* download_and_convert_to_pdf: the fetched page
  result,                \* what download_and_convert_to_pdf returned
  slept,                 \* has time.sleep run since the last post's fetch?
  call,                  \* the last call of download_and_convert_to_pdf
  outcomes,              \* this run's posts so far, with how each ended
  index_fetch,           \* how this run's fetch of the index page went
  prev                   \* how the previous run ended

vars ==
  <<site, files, run, WEASYPRINT_AVAILABLE, pc, blog_urls, i, new_count,
    existing_count, error_count, failed_urls, response, result, slept,
    call, outcomes, index_fetch, prev>>

\* pdf_path = output_dir / f"{filename}.pdf"
PdfPath(filename) == filename \o ".pdf"

\* html_backup_path = output_dir / f"{filename}.html"
HtmlBackupPath(filename) == filename \o ".html"

\* A wrong existence check: it looks for the HTML backup, not for the PDF.
AlreadyExistsBackup(fs, filename) == HtmlBackupPath(filename) \in DOMAIN fs

\* pdf_path.exists()
AlreadyExists(fs, filename) == PdfPath(filename) \in DOMAIN fs

\* The flag is not looked at: the conversion always goes on.
RendererAssumed(flag) == TRUE

\* `if not WEASYPRINT_AVAILABLE` lets the conversion go on when the flag is
\* set.
RendererUsable(flag) == flag

\* The directory after html.write_pdf(pdf_path) returned.
FilesAfterRender(fs, filename, url) == (PdfPath(filename) :> url) @@ fs

\* A failed conversion that leaves the PDF it began to write beside the
\* backup.
FilesAfterRenderErrorPartial(fs, filename, url, saved) ==
  (PdfPath(filename) :> url)
    @@ (IF saved THEN (HtmlBackupPath(filename) :> url) @@ fs ELSE fs)

\* The directory after the handler of a failed conversion: the HTML backup
\* when it could be written (saved), nothing otherwise.
FilesAfterRenderError(fs, filename, url, saved) ==
  IF saved THEN (HtmlBackupPath(filename) :> url) @@ fs ELSE fs

\* The message of the failure record when the renderer is missing.
NotInstalled == "weasyprint not installed"

\* The count is not incremented.
CountErrorForgotten(n) == n

\* error_count += 1
CountError(n) == n + 1

\* The exception ends the loop: no URL after the failed one is processed.
NextAfterExceptionBreak(k, n) == n + 1

\* The loop position after main()'s handler caught a post's exception: the
\* for loop goes on with the next of the n URLs.
NextAfterException(k, n) == k + 1

\* The error is swallowed and reported as an index without posts.
AfterIndexErrorSwallowed == "noposts"

\* Where main() ends when get_blog_posts raises: the outer handler reports
\* the fatal error.
AfterIndexError == "fatal"

NoCall ==
  [url |-> "", filename |-> "", existed |-> FALSE, rendered |-> FALSE,
   before |-> [u \in {} |-> ""], failures |-> 0, outcome |-> "none"]

\* Did every post of the outcomes end in one of the given ways?
AllEnded(outs, ways) == \A k \in 1..Len(outs) : outs[k].outcome \in ways

NoRun ==
  [files |-> [u \in {} |-> ""], ended |-> "none", clean |-> FALSE,
   fetched |-> FALSE]

Done == pc \in {"fatal", "noposts", "summary"}

Init ==
  /\ site \in Sites
  /\ files = [u \in {} |-> ""]
  /\ run = 1
  /\ WEASYPRINT_AVAILABLE \in BOOLEAN
  /\ pc = "discover"
  /\ blog_urls = <<>>
  /\ i = 1
  /\ new_count = 0
  /\ existing_count = 0
  /\ error_count = 0
  /\ failed_urls = <<>>
  /\ response = <<>>
  /\ result = "none"
  /\ slept = FALSE
  /\ call = NoCall
  /\ outcomes = <<>>
  /\ index_fetch = "pending"
  /\ prev = NoRun

\* get_blog_posts returned: main() stops when there is no post, and sets up
\* the tally otherwise.
DiscoverOk ==
  /\ pc = "discover"
  /\ blog_urls' = get_blog_posts(base_url, site.index)
  /\ pc' = IF blog_urls' = <<>> THEN "noposts" ELSE "loop"
  /\ i' = 1
  /\ new_count' = 0
  /\ existing_count' = 0
  /\ error_count' = 0
  /\ failed_urls' = <<>>
  /\ index_fetch' = "ok"
  /\ UNCHANGED <<site, files, run, WEASYPRINT_AVAILABLE, response, result,
                 slept, call, outcomes, prev>>

\* requests.get or raise_for_status raised in get_blog_posts: the exception
\* reaches the outer handler of main().
DiscoverFail ==
  /\ pc = "discover"
  /\ pc' = AfterIndexError
  /\ index_fetch' = "error"
  /\ UNCHANGED <<site, files, run, WEASYPRINT_AVAILABLE, blog_urls, i,
                 new_count, existing_count, error_count, failed_urls,
                 response, result, slept, call, outcomes, prev>>

\* download_and_convert_to_pdf fetched the post.
FetchOk ==
  /\ pc = "loop"
  /\ i <= Len(blog_urls)
  /\ response' = site.pages[blog_urls[i]]
  /\ slept' = FALSE
  /\ pc' = "convert"
  /\ UNCHANGED <<site, files, run, WEASYPRINT_AVAILABLE, blog_urls, i,
                 new_count, existing_count, error_count, failed_urls,
                 result, call, outcomes, index_fetch, prev>>

\* The fetch raised: download_and_convert_to_pdf is left by the exception,
\* which the handler in the loop of main() counts and records.
FetchFail ==
  /\ pc = "loop"
  /\ i <= Len(blog_urls)
  /\ slept' = FALSE
  /\ error_count' = CountError(error_count)
  /\ failed_urls' = Append(failed_urls, <<blog_urls[i], "fetch error">>)
  /\ outcomes' = Append(outcomes, [url |-> blog_urls[i], outcome |-> "raised"])
  /\ call' = [url |-> blog_urls[i], filename |-> "", existed |-> FALSE,
              rendered |-> FALSE, before |-> files,
              failures |-> Len(failed_urls), outcome |-> "raised"]
  /\ i' = NextAfterException(i, Len(blog_urls))
  /\ pc' = "loop"
  /\ UNCHANGED <<site, files, run, WEASYPRINT_AVAILABLE, blog_urls,
                 new_count, existing_count, result, response, index_fetch,
                 prev>>

\* What every way through download_and_convert_to_pdf after the fetch
\* shares: the call that is recorded, and the return to main().
Returns(res, rendered) ==
  /\ pc = "convert"
  /\ result' = res
  /\ call' = [url |-> blog_urls[i],
              filename |-> Filename(response, blog_urls[i]),
              existed |-> PdfPath(Filename(response, blog_urls[i]))
                            \in DOMAIN files,
              rendered |-> rendered, before |-> files,
              failures |-> Len(failed_urls), outcome |-> res]
  /\ pc' = "tally"
  /\ UNCHANGED <<site, run, WEASYPRINT_AVAILABLE, blog_urls, i, new_count,
                 existing_count, error_count, response, slept, outcomes,
                 index_fetch, prev>>

\* The PDF is there already.
ConvertExisting ==
  /\ pc = "convert"
  /\ AlreadyExists(files, Filename(response, blog_urls[i]))
  /\ Returns("existing", FALSE)
  /\ UNCHANGED <<files, failed_urls>>

\* No PDF yet, and weasyprint could not be imported.
ConvertNoRenderer ==
  /\ pc = "convert"
  /\ ~AlreadyExists(files, Filename(response, blog_urls[i]))
  /\ ~RendererUsable(WEASYPRINT_AVAILABLE)
  /\ failed_urls' = Append(failed_urls, <<blog_urls[i], NotInstalled>>)
  /\ Returns("error", FALSE)
  /\ UNCHANGED files

\* The conversion without the existence check: the PDF is rendered and
\* written whether or not it is there.
ConvertSuccessUnchecked ==
  /\ pc = "convert"
  /\ RendererUsable(WEASYPRINT_AVAILABLE)
  /\ files' = FilesAfterRender(files, Filename(response, blog_urls[i]),
                               blog_urls[i])
  /\ Returns("success", TRUE)
  /\ UNCHANGED failed_urls

\* The page was cleaned, rendered and written as a PDF.
ConvertSuccess ==
  /\ pc = "convert"
  /\ ~AlreadyExists(files, Filename(response, blog_urls[i]))
  /\ RendererUsable(WEASYPRINT_AVAILABLE)
  /\ files' = FilesAfterRender(files, Filename(response, blog_urls[i]),
                               blog_urls[i])
  /\ Returns("success", TRUE)
  /\ UNCHANGED failed_urls

\* Cleaning or rendering raised: the failure is recorded and the fetched
\* HTML is saved as a backup, when that write succeeds.
ConvertRenderError ==
  /\ pc = "convert"
  /\ ~AlreadyExists(files, Filename(response, blog_urls[i]))
  /\ RendererUsable(WEASYPRINT_AVAILABLE)
  /\ failed_urls' = Append(failed_urls, <<blog_urls[i], "render error">>)
  /\ \E saved \in BOOLEAN :
       files' = FilesAfterRenderError(files,
                  Filename(response, blog_urls[i]), blog_urls[i], saved)
  /\ Returns("error", TRUE)

\* main() counts the result.
Tally ==
  /\ pc = "tally"
  /\ new_count' = IF result = "success" THEN new_count + 1 ELSE new_count
  /\ existing_count' =
       IF result = "existing" THEN existing_count + 1 ELSE existing_count
  /\ error_count' =
       IF result \notin {"success", "existing"} THEN CountError(error_count)
       ELSE error_count
  /\ outcomes' = Append(outcomes, [url |-> blog_urls[i], outcome |-> result])
  /\ pc' = "sleep"
  /\ UNCHANGED <<site, files, run, WEASYPRINT_AVAILABLE, blog_urls, i,
                 failed_urls, response, result, slept, call, index_fetch,
                 prev>>

\* time.sleep(0.5), and on to the next URL.
Sleep ==
  /\ pc = "sleep"
  /\ slept' = TRUE
  /\ i' = i + 1
  /\ pc' = "loop"
  /\ UNCHANGED <<site, files, run, WEASYPRINT_AVAILABLE, blog_urls,
                 new_count, existing_count, error_count, failed_urls,
                 response, result, call, outcomes, index_fetch, prev>>

\* The loop is over: main() prints the summary.
Summary ==
  /\ pc = "loop"
  /\ i > Len(blog_urls)
  /\ pc' = "summary"
  /\ UNCHANGED <<site, files, run, WEASYPRINT_AVAILABLE, blog_urls, i,
                 new_count, existing_count, error_count, failed_urls,
                 response, result, slept, call, outcomes, index_fetch, prev>>

\* The script is run again, in a new process, on the directory the run
\* before left.
NewRun ==
  /\ Done
  /\ run < MaxRuns
  /\ run' = run + 1
  /\ prev' = [files |-> files, ended |-> pc,
              clean |-> AllEnded(outcomes, {"success", "existing"}),
              fetched |-> AllEnded(outcomes, {"success", "existing", "error"})]
  /\ WEASYPRINT_AVAILABLE' \in BOOLEAN
  /\ pc' = "discover"
  /\ blog_urls' = <<>>
  /\ i' = 1
  /\ new_count' = 0
  /\ existing_count' = 0
  /\ error_count' = 0
  /\ failed_urls' = <<>>
  /\ response' = <<>>
  /\ result' = "none"
  /\ slept' = FALSE
  /\ call' = NoCall
  /\ outcomes' = <<>>
  /\ index_fetch' = "pending"
  /\ UNCHANGED <<site, files>>

Next ==
  \/ DiscoverOk
  \/ DiscoverFail
  \/ FetchOk
  \/ FetchFail
  \/ ConvertExisting
  \/ ConvertNoRenderer
  \/ ConvertSuccess
  \/ ConvertRenderError
  \/ Tally
  \/ Sleep
  \/ Summary
  \/ NewRun

Spec == Init /\ [][Next]_vars

(***************************************************************************)
(* Link discovery on arbitrary index pages                                 *)
(***************************************************************************)

\* The longest list of anchors tried.
MaxAnchors == 3

\* The hrefs the anchors are drawn from: skipped ones (empty, a fragment
\* and an absolute link that would both resolve to a post under the blog),
\* posts under the blog written in different ways, a page outside the blog
\* and the index itself.
Hrefs ==
  {"", "#a.html", "https://geohot.github.io/blog/h.html", "/blog/p1.html",
   "../blog/p1.html", "/other/a.html", "a.html", "/blog/"}

AnchorLists == UNION {[1..n -> Hrefs] : n \in 0..MaxAnchors}

InitDiscovery ==
  /\ site \in {[index |-> h, pages |-> [u \in {} |-> <<>>]] :
                 h \in AnchorLists} \cup {SiteOne}
  /\ files = [u \in {} |-> ""]
  /\ run = 1
  /\ WEASYPRINT_AVAILABLE \in BOOLEAN
  /\ pc = "discover"
  /\ blog_urls = <<>>
  /\ i = 1
  /\ new_count = 0
  /\ existing_count = 0
  /\ error_count = 0
  /\ failed_urls = <<>>
  /\ response = <<>>
  /\ result = "none"
  /\ slept = FALSE
  /\ call = NoCall
  /\ outcomes = <<>>
  /\ index_fetch = "pending"
  /\ prev = NoRun

NextDiscovery ==
  \/ DiscoverOk
  \/ DiscoverFail

SpecDiscovery == InitDiscovery /\ [][NextDiscovery]_vars

(***************************************************************************)
(* Filename derivation on arbitrary titles and URLs                        *)
(***************************************************************************)

\* The longest of the short titles tried.
MaxTitleLen == 2

\* The characters of the short titles: a letter, the space, the tab, two of
\* the characters sanitize_filename removes, and the underscore.
TitleChars == {"a", " ", "\t", "?", "/", "_"}

\* s * n
RECURSIVE Repeat(_, _)
Repeat(s, n) ==
  IF n = 0 THEN ""
  ELSE IF n = 1 THEN s
  ELSE Repeat(s, n \div 2) \o Repeat(s, n - n \div 2)

RECURSIVE StringsOver(_, _)
StringsOver(chars, n) ==
  IF n = 0 THEN {""}
  ELSE StringsOver(chars, n - 1)
         \cup {t \o c : t \in StringsOver(chars, n - 1), c \in chars}

\* The short titles, and titles around the length limit.
Titles ==
  StringsOver(TitleChars, MaxTitleLen)
    \cup {Repeat("a", MaxFilenameLen), Repeat("a", MaxFilenameLen + 1),
          Repeat("a ?", MaxFilenameLen), Repeat("?", MaxFilenameLen)}

\* The tags of the element carrying the title; a page with only a
\* paragraph has no title.
TitleTags == {"h1", "title", "h3", "p"}

\* Post URLs with and without a date, and with characters in the path that
\* a URL may hold.
PostUrls ==
  {PostP1, PostA, PostC, "https://geohot.github.io/blog/2024/03/07/a:b.html"}

InitFilename ==
  /\ \E u \in PostUrls, tag \in TitleTags, t \in Titles :
       /\ site = [index |-> <<>>, pages |-> (u :> Page(tag, t))]
       /\ blog_urls = <<u>>
       /\ response = Page(tag, t)
       /\ files \in {[x \in {} |-> ""],
                     (PdfPath(Filename(Page(tag, t), u)) :> u)}
  /\ run = 1
  /\ WEASYPRINT_AVAILABLE \in BOOLEAN
  /\ pc = "convert"
  /\ i = 1
  /\ new_count = 0
  /\ existing_count = 0
  /\ error_count = 0
  /\ failed_urls = <<>>
  /\ result = "none"
  /\ slept = FALSE
  /\ call = NoCall
  /\ outcomes = <<>>
  /\ index_fetch = "ok"
  /\ prev = [NoRun EXCEPT !.files = files]

NextFilename ==
  \/ ConvertExisting
  \/ ConvertNoRenderer
  \/ ConvertSuccess
  \/ ConvertRenderError

SpecFilename == InitFilename /\ [][NextFilename]_vars

(***************************************************************************)
(* Properties                                                              *)
(***************************************************************************)

\* The paths whose presence or content differs between two directories.
Changed(before, after) ==
  {p \in DOMAIN before \cup DOMAIN after :
     \/ p \notin DOMAIN before
     \/ p \notin DOMAIN after
     \/ before[p] # after[p]}

\* The failure records of a URL.
RecordsOf(url) == {k \in 1..Len(failed_urls) : failed_urls[k][1] = url}

\* The posts of this run that ended in one of the given ways.
Ended(ways) == {k \in 1..Len(outcomes) : outcomes[k].outcome \in ways}

\* The URLs of the posts counted as failed so far, in processing order.
FailedSoFar ==
  LET F[k \in 0..Len(outcomes)] ==
        IF k = 0 THEN <<>>
        ELSE IF outcomes[k].outcome \in {"error", "raised"}
          THEN Append(F[k - 1], outcomes[k].url)
        ELSE F[k - 1]
  IN  F[Len(outcomes)]

\* The second of two runs is over, both discovered the posts, and no fetch
\* of a post failed in either.
SecondRunOver ==
  /\ run >= 2
  /\ pc = "summary"
  /\ prev.ended = "summary"
  /\ prev.fetched
  /\ AllEnded(outcomes, {"success", "existing", "error"})

C2_AtMostOneFile ==
  call.outcome # "none" =>
    /\ Cardinality(Changed(call.before, files)) <= 1
    /\ call.outcome # "success"
         => \A p \in Changed(call.before, files) : ~EndsWith(p, ".pdf")
    /\ call.outcome # "error"
         => \A p \in Changed(call.before, files) : ~EndsWith(p, ".html")

C2_Witness ==
  /\ call.outcome = "error"
  /\ call.rendered
  /\ Changed(call.before, files) = {call.filename \o ".html"}
  /\ Len(outcomes) >= 1
  /\ outcomes[1].outcome = "success"

\* C3: when the PDF of a post is there, the call returns 'existing', does
\* not render, records no failure and leaves the directory as it was; and
\* a PDF is added or changed only by a call that returns 'success'.
C3_ExistingPdfUntouched ==
  /\ (call.outcome \notin {"none", "raised"} /\ call.existed) =>
       /\ call.outcome = "existing"
       /\ result = "existing"
       /\ ~call.rendered
       /\ files = call.before
       /\ Len(failed_urls) = call.failures
  /\ call.outcome # "none" =>
       \A p \in Changed(call.before, files) :
         EndsWith(p, ".pdf") => call.outcome = "success"
  /\ \A p \in DOMAIN prev.files :
       EndsWith(p, ".pdf") => p \in DOMAIN files /\ files[p] = prev.files[p]

\* The PDF found was made from another post (of the same day and title).
C3_Witness ==
  /\ call.existed
  /\ call.outcome = "existing"
  /\ files[call.filename \o ".pdf"] # call.url
  /\ files = call.before

\* C4: a post whose processing raises is caught by main(), counted as
\* failed once and recorded once, with its message; the posts are processed
\* in the order of the list and none is skipped, before or after the one
\* that raised; and a run that discovered posts ends only at the summary,
\* with every URL processed.
C4_FailureIsolation ==
  /\ Len(outcomes) <= Len(blog_urls)
  /\ \A k \in 1..Len(outcomes) : outcomes[k].url = blog_urls[k]
  /\ pc = "loop" => Len(outcomes) = i - 1
  /\ pc \in {"convert", "tally", "sleep"} =>
       i <= Len(blog_urls) /\ Len(outcomes) \in {i - 1, i}
  /\ \A k \in Ended({"raised"}) :
       /\ Cardinality(RecordsOf(outcomes[k].url)) = 1
       /\ \E r \in RecordsOf(outcomes[k].url) :
            failed_urls[r] = <<outcomes[k].url, "fetch error">>
  /\ pc \in {"loop", "summary"} =>
       /\ error_count >= Cardinality(Ended({"raised"}))
       /\ error_count + new_count + existing_count = Len(outcomes)
  /\ (Done /\ index_fetch = "ok" /\ blog_urls # <<>>) =>
       /\ pc = "summary"
       /\ Len(outcomes) = Len(blog_urls)

C4_Witness ==
  /\ pc = "summary"
  /\ Len(outcomes) = 3
  /\ outcomes[1].outcome = "success"
  /\ outcomes[2].outcome = "raised"
  /\ outcomes[3].outcome = "success"
  /\ error_count = 1
  /\ failed_urls = <<<<blog_urls[2], "fetch error">>>>

\* The anchors and the result of the example.
ExampleAnchors ==
  <<"#x", "https://ext/a.html", "/", "/blog/p1.html", "/blog/p1.html",
    "/blog/p2.txt">>

\* C5: the discovered URLs are exactly the resolved targets of the anchors
\* that are not empty, not a fragment, not starting with 'http' and not
\* '/', and that lie under the base, differ from it and end in '.html';
\* they are in ascending order without duplicates; the example yields its
\* one post.
C5_DiscoveryResult ==
  index_fetch = "ok" =>
    /\ \A k \in 1..Len(blog_urls) :
         \E a \in 1..Len(site.index) :
           /\ site.index[a] # ""
           /\ ~StartsWith(site.index[a], "#")
           /\ ~StartsWith(site.index[a], "http")
           /\ site.index[a] # "/"
           /\ blog_urls[k] = urljoin(base_url, site.index[a])
    /\ \A k \in 1..Len(blog_urls) :
         /\ StartsWith(blog_urls[k], base_url)
         /\ blog_urls[k] # base_url
         /\ EndsWith(blog_urls[k], ".html")
    /\ \A a \in 1..Len(site.index) :
         (/\ site.index[a] \notin {"", "/"}
          /\ ~StartsWith(site.index[a], "#")
          /\ ~StartsWith(site.index[a], "http")
          /\ StartsWith(urljoin(base_url, site.index[a]), base_url)
          /\ urljoin(base_url, site.index[a]) # base_url
          /\ EndsWith(urljoin(base_url, site.index[a]), ".html"))
           => \E k \in 1..Len(blog_urls) :
                blog_urls[k] = urljoin(base_url, site.index[a])
    /\ \A j, k \in 1..Len(blog_urls) :
         j < k => StrLess(blog_urls[j], blog_urls[k])
    /\ site.index = ExampleAnchors =>
         /\ blog_urls = <<PostP1>>
         /\ get_blog_posts("https://site/blog/", ExampleAnchors)
              = <<"https://site/blog/p1.html">>

\* Two posts found in the reverse of the document order, one of them
\* linked twice in different ways.
C5_Witness ==
  /\ index_fetch = "ok"
  /\ site.index = <<"/blog/p1.html", "a.html", "../blog/p1.html">>
  /\ blog_urls = <<"https://geohot.github.io/blog/a.html", PostP1>>

\* The PDF a post of the site is saved as.
PdfOf(url) == Filename(site.pages[url], url) \o ".pdf"

\* C6 as stated: in a run without the renderer (and without fetch errors)
\* every post is counted as failed, with the record of the missing
\* renderer, and no file is written.
C6_AllFailedWithoutRenderer ==
  (pc = "summary" /\ ~WEASYPRINT_AVAILABLE
     /\ AllEnded(outcomes, {"success", "existing", "error"})) =>
    /\ files = prev.files
    /\ Len(outcomes) = Len(blog_urls)
    /\ error_count = Len(blog_urls)
    /\ \A k \in 1..Len(outcomes) :
         /\ outcomes[k].outcome = "error"
         /\ \E r \in RecordsOf(outcomes[k].url) :
              failed_urls[r][2] = NotInstalled

\* C6, amended: a run without the renderer processes every discovered URL
\* and writes no file; a post that is fetched and whose PDF is not there
\* yet is counted as failed, with the record of the missing renderer; a
\* post whose PDF is there is reported as existing.
C6_WithoutRenderer ==
  ~WEASYPRINT_AVAILABLE =>
    /\ files = prev.files
    /\ pc = "summary" =>
         /\ Len(outcomes) = Len(blog_urls)
         /\ error_count = Cardinality(Ended({"error", "raised"}))
    /\ call.outcome # "none" => ~call.rendered
    /\ \A k \in 1..Len(outcomes) :
         /\ outcomes[k].outcome \in {"raised", "existing", "error"}
         /\ outcomes[k].outcome = "existing"
              <=> (outcomes[k].outcome # "raised"
                     /\ PdfOf(outcomes[k].url) \in DOMAIN prev.files)
         /\ outcomes[k].outcome = "error" =>
              /\ Cardinality(RecordsOf(outcomes[k].url)) = 1
              /\ \E r \in RecordsOf(outcomes[k].url) :
                   failed_urls[r] = <<outcomes[k].url, NotInstalled>>

C6_Witness ==
  /\ ~WEASYPRINT_AVAILABLE
  /\ pc = "summary"
  /\ Len(outcomes) = 3
  /\ outcomes[1].outcome = "error"
  /\ outcomes[2].outcome = "existing"
  /\ outcomes[3].outcome = "existing"
  /\ error_count = 1
  /\ failed_urls = <<<<PostC, NotInstalled>>>>

\* C7: when the fetch of the index page fails, the run ends with the fatal
\* error report: no post is fetched, no conversion is attempted and the
\* directory is as before the run.
C7_DiscoveryFatal ==
  index_fetch = "error" =>
    /\ pc = "fatal"
    /\ files = prev.files
    /\ blog_urls = <<>>
    /\ outcomes = <<>>
    /\ call = NoCall
    /\ response = <<>>
    /\ failed_urls = <<>>
    /\ new_count + existing_count + error_count = 0

\* A second run that fails at the index leaves the files of the first.
C7_Witness ==
  /\ index_fetch = "error"
  /\ pc = "fatal"
  /\ run = 2
  /\ Cardinality(DOMAIN files) = 2

\* C8 as stated: when a post other than the first is about to be fetched,
\* the delay has run since the fetch of the post before it.
C8_DelayBeforeEveryNextPost ==
  (pc = "loop" /\ 1 < i /\ i <= Len(blog_urls)) => slept

\* The name without the date prefix the URL calls for.
NameOfCall ==
  IF DateMatches(call.url) # {}
  THEN SubSeq(call.filename, 12, Len(call.filename))
  ELSE call.filename

\* C9 as stated: the filename of a fetched post is the date of the URL and
\* an underscore, exactly when the URL has a /YYYY/MM/DD/ segment, followed
\* by a name that is not empty, has at most 200 characters and holds no
\* space and none of < > : " / \ | ? *.
C9_FilesystemSafeName ==
  call.outcome \in {"success", "existing", "error"} =>
    /\ DateMatches(call.url) # {} =>
         /\ Len(call.filename) > 11
         /\ SubSeq(call.filename, 1, 11)
              = extract_date_from_url(call.url) \o "_"
    /\ NameOfCall # ""
    /\ Len(NameOfCall) <= MaxFilenameLen
    /\ \A k \in 1..Len(NameOfCall) :
         Char(NameOfCall, k) \notin InvalidChars \cup {" "}

\* C10: after each iteration the three counts add up to the number of
\* posts processed, each count is the number of posts that ended that way,
\* and the failure list holds one record for each post counted as failed,
\* in order, and none for the others.
C10_TallyConsistent ==
  pc \in {"loop", "summary"} =>
    /\ new_count + existing_count + error_count = Len(outcomes)
    /\ pc = "loop" => Len(outcomes) = i - 1
    /\ \A k \in 1..Len(outcomes) : outcomes[k].url = blog_urls[k]
    /\ \A j, k \in 1..Len(blog_urls) :
         j < k => StrLess(blog_urls[j], blog_urls[k])
    /\ new_count = Cardinality(Ended({"success"}))
    /\ existing_count = Cardinality(Ended({"existing"}))
    /\ error_count = Cardinality(Ended({"error", "raised"}))
    /\ Len(failed_urls) = error_count
    /\ \A k \in 1..Len(failed_urls) : failed_urls[k][1] = FailedSoFar[k]
    /\ \A k \in Ended({"success", "existing"}) :
         RecordsOf(outcomes[k].url) = {}

\* A run with a post found existing, one whose fetch raised and one whose
\* conversion failed.
C10_Witness ==
  /\ pc = "summary"
  /\ Len(outcomes) = 3
  /\ outcomes[1].outcome = "existing"
  /\ outcomes[2].outcome = "raised"
  /\ outcomes[3].outcome = "error"
  /\ existing_count = 1
  /\ error_count = 2
  /\ failed_urls[2][2] = "render error"

===========================================================================
